---- MODULE Spec2Model ----
(***************************************************************************)
(* Model of the chimerai agent: the turn loop of Agent::handle_message and *)
(* Agent::handle_message_stream, the tool coordinator (execute_tool and    *)
(* execute_tool_static), the short-term memory they append to, and the     *)
(* translation of OpenAI response bodies into decisions.                   *)
(*                                                                         *)
(* Text is a sequence of whitespace-separated words, so that the token     *)
(* estimate of the memory (a word count) is computed, not assumed.         *)
(***************************************************************************)
EXTENDS Integers, Sequences, FiniteSets, TLC

VARIABLES
    state,            \* Agent.state
    messages,         \* Agent.short_term_memory.messages
    tools,            \* Agent.tools (names of the registered tools)
    config,           \* Agent.config
    pc,               \* position of the handle call in flight
    mode,             \* "batch" (handle_message) or "stream" (handle_message_stream)
    context,          \* local `context` of the handle call
    retries,          \* local `retries` of the handle call
    full_response,    \* local `full_response` of the stream body
    tool_calls,       \* local `tool_calls` of the stream body (an Option)
    nframes,          \* frames consumed from the decision stream of the round
    batch,            \* `args` of the coordinator call of the current round
    exec_tools,       \* the tool set the coordinator call runs against
    pending,          \* resolvable entries of the batch not executed yet
    success_result,   \* local `success_result` of the coordinator
    failure_result,   \* local `failure_result` of the coordinator
    result,           \* what the last handle call returned
    yielded,          \* items the stream yielded during the current round
    decision,         \* the decision `complete` last returned to the call
    attempts,         \* provider requests issued by the handle call
    timeouts,         \* timed-out rounds of the handle call
    errors,           \* provider requests of the handle call that returned an error
    executed,         \* per call-id, tool executions in the current round
    ncalls,           \* handle calls made so far
    nrounds,          \* tool rounds completed so far
    configured,       \* whether with_config has been called
    added,            \* the messages passed to add_message so far, in call order
    view,             \* the last direct get_context_messages call and what it returned
    response,         \* the last response body OpenaiLlmClient::complete translated
    status,           \* the HTTP status that response body came with
    frames,           \* the frames stream_complete delivered in the latest round
    first             \* the call of a first agent, kept to compare a second with

vars == <<state, messages, tools, config, pc, mode, context, retries,
          full_response, tool_calls, nframes, batch, exec_tools, pending,
          success_result, failure_result, result, yielded, decision, attempts,
          timeouts, errors, executed, ncalls, nrounds, configured, added, view,
          response, status, frames, first>>

----------------------------------------------------------------------------
(* Bounds of the model *)

MaxCalls == 2         \* handle calls per run
MaxToolRounds == 2    \* tool rounds per run
MaxFrames == 2        \* frames of one streamed round
MaxEntries == 2       \* tool-call entries of one provider response
MaxMessages == 4      \* messages added to a short-term memory on its own
MaxBudget == 6        \* largest token budget a context view is asked with

----------------------------------------------------------------------------
(* Data *)

AgentStates == {"Ready", "Processing", "WaitingForUserInput", "Error", "Terminated"}

CallIds == {"c1", "c2"}
ToolKinds == {"echo"}

EmptyMap == <<>>
EmptyObject == {}
TextObject == {<<"text", <<"x">>>>}

Prompt == <<"You", "are", "a", "helpful", "assistant.">>
UserTexts == {<<"Hello">>}
ReplyTexts == {<<"Hi">>}
ToolTexts == {<<>>}

None == [some |-> FALSE, map |-> EmptyMap]
Some(m) == [some |-> TRUE, map |-> m]

NoTokens == [some |-> FALSE, v |-> 0]
SomeTokens(n) == [some |-> TRUE, v |-> n]
TokenBudgets == {SomeTokens(2)}

System(c) == [role |-> "System", content |-> c, tool_calls |-> None, tool_call_id |-> ""]
User(c) == [role |-> "User", content |-> c, tool_calls |-> None, tool_call_id |-> ""]
Assistant(c, tc) == [role |-> "Assistant", content |-> c, tool_calls |-> tc, tool_call_id |-> ""]
Tool(c, id) == [role |-> "Tool", content |-> c, tool_calls |-> None, tool_call_id |-> id]

ToolCallArgs(name, args) == [tool_type |-> "function", tool_name |-> name, args |-> args]

EchoOk == ToolCallArgs("echo", TextObject)
EchoFails == ToolCallArgs("echo", EmptyObject)
Unregistered == ToolCallArgs("what_tool", EmptyObject)

\* The batches a decision is drawn with: no entry, a failing call alone, and
\* the pairs that mix a successful call with a missing tool or a failing
\* call, or name the same missing tool twice.
Batches ==
    {EmptyMap,
     [c \in {"c1"} |-> EchoFails],
     [c \in CallIds |-> IF c = "c1" THEN EchoOk ELSE Unregistered],
     [c \in CallIds |-> IF c = "c1" THEN EchoOk ELSE EchoFails],
     [c \in CallIds |-> Unregistered]}

RetryChoices == {0, 2}

Configs == [system_prompt : {Prompt}, max_tokens : TokenBudgets,
            max_retries : RetryChoices, should_retry_on_error : {TRUE}]

DefaultConfig == [system_prompt |-> <<"You", "are", "a", "helpful", "AI", "assistant.">>,
                  max_tokens |-> SomeTokens(2048), max_retries |-> 3,
                  should_retry_on_error |-> TRUE]

Insert(m, k, v) == [x \in (DOMAIN m) \cup {k} |-> IF x = k THEN v ELSE m[x]]

Perms(S) == {s \in [1..Cardinality(S) -> S] : \A i, j \in 1..Cardinality(S) : i # j => s[i] # s[j]}

Last(s) == s[Len(s)]

----------------------------------------------------------------------------
(* Short-term memory *)

estimate_tokens(text) == (Len(text) * 13) \div 10

\* A message put in front of the history.
add_messageFront(h, m) == <<m>> \o h

add_message(h, m) == Append(h, m)

\* The walk of get_context_messages from the newest message: k is the number
\* of messages taken so far, total their accumulated estimate.
\* A walk that tests the budget after it has taken the message.
RECURSIVE WalkTakesFirst(_, _, _, _)
WalkTakesFirst(h, max, k, total) ==
    IF k = Len(h) \/ total > max THEN k
    ELSE WalkTakesFirst(h, max, k + 1, total + estimate_tokens(h[Len(h) - k].content))

RECURSIVE Walk(_, _, _, _)
Walk(h, max, k, total) ==
    IF k = Len(h) THEN k
    ELSE LET tokens == estimate_tokens(h[Len(h) - k].content)
         IN  IF total + tokens > max THEN k
             ELSE Walk(h, max, k + 1, total + tokens)

\* A missing budget read as a budget of zero.
get_context_messagesZeroDefault(h, max_tokens) ==
    LET k == Walk(h, IF max_tokens.some THEN max_tokens.v ELSE 0, 0, 0)
    IN  SubSeq(h, Len(h) - k + 1, Len(h))

\* The walk's result returned as collected, newest first.
get_context_messagesUnreversed(h, max_tokens) ==
    IF max_tokens.some
    THEN LET k == Walk(h, max_tokens.v, 0, 0)
         IN  [i \in 1..k |-> h[Len(h) + 1 - i]]
    ELSE h

get_context_messages(h, max_tokens) ==
    IF max_tokens.some
    THEN LET k == Walk(h, max_tokens.v, 0, 0)
         IN  SubSeq(h, Len(h) - k + 1, Len(h))
    ELSE h

----------------------------------------------------------------------------
(* Tools and the tool coordinator *)

MissingText == <<"Missing", "'text'", "argument">>

\* EchoTool::execute: the text argument, or an error when it is absent.
echo_execute(args) ==
    IF \E p \in args : p[1] = "text"
    THEN [ok |-> TRUE, text |-> (CHOOSE p \in args : p[1] = "text")[2]]
    ELSE [ok |-> FALSE, text |-> MissingText]

execute(name, args) == echo_execute(args)

DoesNotExist(name) == <<"Tool", name, "does", "not", "exist!">>

\* format! glues the notice's punctuation to the first and the last word of
\* the error text, so the notice has two words more than the error.
Opened(w) ==
    CASE w = "Tool" -> "failed(error:Tool"
      [] w = "Missing" -> "failed(error:Missing"

ClosedNoRetry(w) ==
    CASE w = "exist!" -> "exist!).no-retry,answer-another-way."
      [] w = "argument" -> "argument).no-retry,answer-another-way."

Closed(w) ==
    CASE w = "exist!" -> "exist!)."
      [] w = "argument" -> "argument)."

FailureNotice(name, error) ==
    <<"tool", name, Opened(error[1])>> \o SubSeq(error, 2, Len(error) - 1)
        \o <<ClosedNoRetry(Last(error))>>

FailureNoticeStream(name, error) ==
    <<"tool", name, Opened(error[1])>> \o SubSeq(error, 2, Len(error) - 1)
        \o <<Closed(Last(error))>>

\* A first pass that gives up the whole batch when one tool is missing.
ResolvableAllOrNothing(args, ts) ==
    IF \A c \in DOMAIN args : args[c].tool_name \in ts THEN DOMAIN args ELSE {}

\* execute_tool, first pass: the entries whose tool is registered.
Resolvable(args, ts) == {c \in DOMAIN args : args[c].tool_name \in ts}

\* execute_tool, first pass: the failures recorded for the other entries.
MissingFailures(args, ts) ==
    LET names == {args[c].tool_name : c \in (DOMAIN args) \ Resolvable(args, ts)}
    IN  [n \in names |-> DoesNotExist(n)]

\* execute_tool_static: the failure recorded for each entry of M, none of
\* which names a registered tool.
StaticFailures(fail, args, M) ==
    [k \in (DOMAIN fail) \cup M |->
        IF k \in M THEN DoesNotExist(args[k].tool_name) ELSE fail[k]]

SuccessMessages(succ, so) == [i \in 1..Len(so) |-> Tool(succ[so[i]], so[i])]

FailureMessages(fail, calls, fo) ==
    [i \in 1..Len(fo) |->
        Tool(FailureNotice(IF fo[i] \in DOMAIN calls THEN calls[fo[i]].tool_name ELSE fo[i],
                           fail[fo[i]]),
             fo[i])]

FailureMessagesStream(fail, calls, fo) ==
    [i \in 1..Len(fo) |->
        Tool(FailureNoticeStream(calls[fo[i]].tool_name, fail[fo[i]]), fo[i])]

ZeroExecuted == [c \in CallIds |-> 0]

----------------------------------------------------------------------------
(* Results of a handle call *)

NoResult == [kind |-> "None", text |-> <<>>]
Pending == [kind |-> "Pending", text |-> <<>>]
Ok(t) == [kind |-> "Ok", text |-> t]
Err(k) == [kind |-> k, text |-> <<>>]
StreamReturned == [kind |-> "Stream", text |-> <<>>]
StreamDone == [kind |-> "StreamDone", text |-> <<>>]

OkItem(t) == [ok |-> TRUE, text |-> t]
ErrItem(k) == [ok |-> FALSE, text |-> <<k>>]

push_str(a, b) == a \o b

NoDecision == [kind |-> "None", text |-> <<>>, calls |-> EmptyMap]
Respond(t) == [kind |-> "Respond", text |-> t, calls |-> EmptyMap]
ExecuteTool(t, m) == [kind |-> "ExecuteTool", text |-> t, calls |-> m]

\* The finished call of an agent: what it returned, the requests it made
\* and how it left the agent.
NoCall == [taken |-> FALSE, result |-> NoResult, attempts |-> 0, timeouts |-> 0,
           state |-> "Ready", messages |-> <<>>]
Call(r, a, t, s, h) == [taken |-> TRUE, result |-> r, attempts |-> a, timeouts |-> t,
                        state |-> s, messages |-> h]

\* A direct call of get_context_messages: its argument and what it returned.
NoView == [taken |-> FALSE, max_tokens |-> NoTokens, result |-> <<>>]
View(b, r) == [taken |-> TRUE, max_tokens |-> b, result |-> r]

----------------------------------------------------------------------------
(* Provider responses (serde_json values) and their translation *)

\* A value is a record with one field, named after its kind.
JNull == [null |-> TRUE]
JStr(x) == [str |-> x]
JArr(a) == [arr |-> a]
JObj(f) == [obj |-> f]

is_string(val) == "str" \in DOMAIN val
is_array(val) == "arr" \in DOMAIN val
is_object(val) == "obj" \in DOMAIN val

NoResponse == JNull

\* Value's index by key: Null for a missing key and for a value that is no object.
Index(val, key) ==
    IF is_object(val) /\ key \in DOMAIN val.obj THEN val.obj[key] ELSE JNull

as_array_or_empty(val) == IF is_array(val) THEN val.arr ELSE <<>>
as_str_or_empty(val) == IF is_string(val) THEN val.str ELSE <<>>

\* Argument strings, as the tokens of their JSON text.
ArgsNone == <<"{", "}">>
ArgsText == <<"{", "text", ":", "x", "}">>
ArgsCut == <<"{", "text", ":">>

\* serde_json::from_str on an argument string: the object it denotes, or an error.
from_str(x) ==
    IF x = <<"{", "}">>
    THEN [ok |-> TRUE, v |-> EmptyObject]
    ELSE IF Len(x) = 5 /\ x[1] = "{" /\ x[3] = ":" /\ x[5] = "}"
         THEN [ok |-> TRUE, v |-> {<<x[2], <<x[4]>>>>}]
         ELSE [ok |-> FALSE, v |-> EmptyObject]

parsed_args(x) == IF from_str(x).ok THEN from_str(x).v ELSE EmptyObject

\* The guards of the two `if let` of the loop over the tool-call entries.
HasIdAndFunction(tc) == is_string(Index(tc, "id")) /\ is_object(Index(tc, "function"))

\* Map's index by key panics on a key the function object does not have.
IndexPanics(tc) ==
    /\ HasIdAndFunction(tc)
    /\ ~({"name", "arguments"} \subseteq DOMAIN Index(tc, "function").obj)

HasNameAndArguments(tc) ==
    /\ is_string(Index(Index(tc, "function"), "name"))
    /\ is_string(Index(Index(tc, "function"), "arguments"))

Panicked == [kind |-> "Panic", text |-> <<>>, calls |-> EmptyMap]

\* The loop over the tool-call entries from entry i on, with the map built so
\* far: the final map, or the panic that ends the loop.
RECURSIVE InsertCalls(_, _, _)
InsertCalls(tcs, i, map) ==
    IF i > Len(tcs) THEN [panic |-> FALSE, map |-> map]
    ELSE IF ~HasIdAndFunction(tcs[i]) THEN InsertCalls(tcs, i + 1, map)
    ELSE IF IndexPanics(tcs[i]) THEN [panic |-> TRUE, map |-> map]
    ELSE IF ~HasNameAndArguments(tcs[i]) THEN InsertCalls(tcs, i + 1, map)
    ELSE LET f == Index(tcs[i], "function")
         IN  InsertCalls(tcs, i + 1,
                 Insert(map, Index(tcs[i], "id").str,
                        ToolCallArgs(Index(f, "name").str,
                                     parsed_args(Index(f, "arguments").str))))

\* The translation of the first choice: its message, content and tool calls.
first_choice(choice) ==
    LET message == Index(choice, "message")
        content == as_str_or_empty(Index(message, "content"))
        calls == Index(message, "tool_calls")
        built == InsertCalls(calls.arr, 1, EmptyMap)
    IN  IF ~is_array(calls) THEN Respond(content)
        ELSE IF built.panic THEN Panicked
        ELSE IF DOMAIN built.map # {} THEN ExecuteTool(content, built.map)
        ELSE Respond(content)

\* A translator that indexes the first choice without testing for one.
parse_openai_response_into_decisionUnguarded(response_json) ==
    LET choices == as_array_or_empty(Index(response_json, "choices"))
    IN  IF Len(choices) = 0 THEN Panicked ELSE first_choice(choices[1])

parse_openai_response_into_decision(response_json) ==
    LET choices == as_array_or_empty(Index(response_json, "choices"))
    IN  IF Len(choices) = 0 THEN Respond(<<>>) ELSE first_choice(choices[1])

\* StatusCode::is_success.
is_success(code) == code \in 200..299

ErrorBody == JObj([error |-> JStr(<<"overloaded">>)])

\* The HTTP status a response body comes with: an error body comes with a
\* status of the 4xx or 5xx range, any other body with 200.
HttpStatuses(r) == IF r = ErrorBody THEN {429, 500} ELSE {200}

\* The response bodies the provider is drawn to answer with.
Entry(id, function) == JObj([id |-> id, function |-> function])
Function(name, arguments) == JObj([name |-> name, arguments |-> arguments])

\* An entry that is complete, one whose arguments do not parse, one that
\* repeats an id and names no registered tool, and entries that lack the id,
\* have null arguments, or lack the name key.
Entries ==
    {Entry(JStr("c1"), Function(JStr("echo"), JStr(ArgsText))),
     Entry(JStr("c2"), Function(JStr("echo"), JStr(ArgsCut))),
     Entry(JStr("c1"), Function(JStr("what_tool"), JStr(ArgsNone))),
     Entry(JNull, Function(JStr("echo"), JStr(ArgsText))),
     Entry(JStr("c2"), Function(JStr("echo"), JNull)),
     Entry(JStr("c2"), JObj([arguments |-> JStr(ArgsNone)]))}

EntryLists == UNION {[1..n -> Entries] : n \in 0..MaxEntries}

Contents == {JNull, JStr(<<"Hi">>)}

MessageValues ==
    {JObj([content |-> c]) : c \in Contents}
        \cup {JObj([content |-> c, tool_calls |-> JArr(l)]) : c \in Contents, l \in EntryLists}

Body(choices) == JObj([choices |-> choices])

Responses ==
    {JNull, ErrorBody, Body(JNull), Body(JArr(<<>>))}
        \cup {Body(JArr(<<JObj([message |-> m])>>)) : m \in MessageValues}

----------------------------------------------------------------------------
(* Construction *)

Init ==
    /\ state = "Ready"
    /\ messages = <<>>
    /\ tools = {}
    /\ config = DefaultConfig
    /\ pc = "idle"
    /\ mode = "batch"
    /\ context = <<>>
    /\ retries = 0
    /\ full_response = <<>>
    /\ tool_calls = None
    /\ nframes = 0
    /\ batch = EmptyMap
    /\ exec_tools = {}
    /\ pending = {}
    /\ success_result = EmptyMap
    /\ failure_result = EmptyMap
    /\ result = NoResult
    /\ yielded = <<>>
    /\ decision = NoDecision
    /\ attempts = 0
    /\ timeouts = 0
    /\ errors = 0
    /\ executed = ZeroExecuted
    /\ ncalls = 0
    /\ nrounds = 0
    /\ configured = FALSE
    /\ added = <<>>
    /\ view = NoView
    /\ response = NoResponse
    /\ status = 0
    /\ frames = <<>>
    /\ first = NoCall

setupVars == <<tools, config, configured>>
memVars == <<added, view>>
wireVars == <<response, status, frames>>
pairVars == <<first>>
coordVars == <<batch, exec_tools, pending, success_result, failure_result, executed>>
streamVars == <<full_response, tool_calls, nframes, yielded>>
callVars == <<state, messages, pc, mode, context, retries, result, decision,
              attempts, timeouts, errors, ncalls, nrounds>>

\* A with_config that stores the configuration and adds no System message.
WithConfigNoPrompt(cfg) ==
    /\ pc = "idle"
    /\ ncalls = 0
    /\ ~configured
    /\ config' = cfg
    /\ configured' = TRUE
    /\ UNCHANGED <<state, messages, pc, mode, context, retries, result, decision,
                   attempts, timeouts, errors, ncalls, nrounds, tools>>
    /\ UNCHANGED coordVars
    /\ UNCHANGED streamVars
    /\ UNCHANGED memVars
    /\ UNCHANGED pairVars
    /\ UNCHANGED wireVars

\* with_config consumes the agent under construction and returns it: it is
\* called once, before the agent handles a message.
WithConfig(cfg) ==
    /\ pc = "idle"
    /\ ncalls = 0
    /\ ~configured
    /\ messages' = add_message(messages, System(cfg.system_prompt))
    /\ config' = cfg
    /\ configured' = TRUE
    /\ UNCHANGED <<state, pc, mode, context, retries, result, decision, attempts,
                   timeouts, errors, ncalls, nrounds, tools>>
    /\ UNCHANGED coordVars
    /\ UNCHANGED streamVars
    /\ UNCHANGED memVars
    /\ UNCHANGED pairVars
    /\ UNCHANGED wireVars

RegisterTool(t) ==
    /\ pc = "idle"
    /\ t \notin tools
    /\ tools' = tools \cup {t}
    /\ UNCHANGED <<config, configured>>
    /\ UNCHANGED callVars
    /\ UNCHANGED coordVars
    /\ UNCHANGED streamVars
    /\ UNCHANGED memVars
    /\ UNCHANGED pairVars
    /\ UNCHANGED wireVars

\* The tests assign the state field directly.
SetState(s) ==
    /\ pc = "idle"
    /\ s # state
    /\ state' = s
    /\ UNCHANGED <<messages, pc, mode, context, retries, result, decision, attempts,
                   timeouts, errors, ncalls, nrounds>>
    /\ UNCHANGED setupVars
    /\ UNCHANGED memVars
    /\ UNCHANGED pairVars
    /\ UNCHANGED wireVars
    /\ UNCHANGED coordVars
    /\ UNCHANGED streamVars

----------------------------------------------------------------------------
(* handle_message *)

\* A state check that rejects only a call already in progress.
NotReadyOnlyProcessing(s) == s = "Processing"

NotReady(s) == s # "Ready"

LoopCond(r, cfg) == r < cfg.max_retries

\* A loop that gives up when the context view is empty.
LoopHeadNeedsContext(r, a) ==
    IF LoopCond(r, config) /\ context' # <<>>
    THEN pc' = "await_llm" /\ attempts' = a + 1 /\ result' = Pending
    ELSE pc' = "idle" /\ attempts' = a /\ result' = Err("RetryExhausted")

\* The `while` test with r retries and a provider requests made so far:
\* the next request is issued, or the loop is left.
LoopHead(r, a) ==
    IF LoopCond(r, config)
    THEN pc' = "await_llm" /\ attempts' = a + 1 /\ result' = Pending
    ELSE pc' = "idle" /\ attempts' = a /\ result' = Err("RetryExhausted")

HandleMessage(m) ==
    /\ pc = "idle"
    /\ ncalls < MaxCalls
    /\ ncalls' = ncalls + 1
    /\ mode' = "batch"
    /\ timeouts' = 0
    /\ errors' = 0
    /\ decision' = NoDecision
    /\ IF NotReady(state)
       THEN /\ result' = Err("NotReady")
            /\ attempts' = 0
            /\ UNCHANGED <<state, messages, context, retries, pc>>
       ELSE /\ state' = "Processing"
            /\ messages' = add_message(messages, User(m))
            /\ context' = get_context_messages(messages', config.max_tokens)
            /\ retries' = 0
            /\ LoopHead(0, 0)
    /\ UNCHANGED nrounds
    /\ UNCHANGED setupVars
    /\ UNCHANGED memVars
    /\ UNCHANGED pairVars
    /\ UNCHANGED wireVars
    /\ batch' = EmptyMap
    /\ exec_tools' = {}
    /\ pending' = {}
    /\ success_result' = EmptyMap
    /\ failure_result' = EmptyMap
    /\ executed' = ZeroExecuted
    /\ full_response' = <<>>
    /\ tool_calls' = None
    /\ nframes' = 0
    /\ yielded' = <<>>

\* A reply stored without its text.
RespondMessageNoText(text) == Assistant(<<>>, None)

RespondMessage(text) == Assistant(text, None)

\* The Respond arm of the turn loop.
OnRespond(text) ==
    /\ pc = "await_llm"
    /\ mode = "batch"
    /\ decision' = Respond(text)
    /\ messages' = add_message(messages, RespondMessage(text))
    /\ state' = "Ready"
    /\ result' = Ok(text)
    /\ pc' = "idle"
    /\ UNCHANGED <<mode, context, retries, attempts, timeouts, errors, ncalls, nrounds>>
    /\ UNCHANGED setupVars
    /\ UNCHANGED memVars
    /\ UNCHANGED pairVars
    /\ UNCHANGED coordVars
    /\ UNCHANGED streamVars

\* A client that returns the decision as it is (MockLLMClient).
LlmRespond(text) ==
    /\ OnRespond(text)
    /\ UNCHANGED wireVars

\* A tool round charged to the retry budget.
AfterToolRoundCounted(r) == r + 1

\* A tool round after which the retries are counted anew.
AfterToolRoundAnew(r) == 0

\* The retry counter with which the loop continues after a tool round.
AfterToolRound(r) == r

\* The end of a tool round: one Tool message per entry of the coordinator's
\* result, in the iteration order of the two maps, then the refreshed
\* context and the next turn of the loop.
FinishRound(h, calls, succ, fail) ==
    \E so \in Perms(DOMAIN succ), fo \in Perms(DOMAIN fail) :
        /\ messages' = h \o SuccessMessages(succ, so) \o FailureMessages(fail, calls, fo)
        /\ context' = get_context_messages(messages', config.max_tokens)
        /\ retries' = AfterToolRound(retries)
        /\ nrounds' = nrounds + 1
        /\ LoopHead(retries', attempts)

\* The ExecuteTool arm of the turn loop, up to the first tool awaited.
OnExecuteTool(text, calls) ==
    /\ pc = "await_llm"
    /\ mode = "batch"
    /\ nrounds < MaxToolRounds
    /\ decision' = ExecuteTool(text, calls)
    /\ batch' = calls
    /\ exec_tools' = tools
    /\ executed' = ZeroExecuted
    /\ success_result' = EmptyMap
    /\ failure_result' = MissingFailures(calls, tools)
    /\ pending' = Resolvable(calls, tools)
    /\ LET h == add_message(messages, Assistant(text, Some(calls)))
       IN  IF pending' = {}
           THEN FinishRound(h, calls, success_result', failure_result')
           ELSE /\ messages' = h
                /\ pc' = "await_tool"
                /\ UNCHANGED <<context, retries, nrounds, attempts, result>>
    /\ UNCHANGED <<state, mode, timeouts, errors, ncalls>>
    /\ UNCHANGED setupVars
    /\ UNCHANGED memVars
    /\ UNCHANGED pairVars
    /\ UNCHANGED streamVars

LlmExecuteTool(text, calls) ==
    /\ OnExecuteTool(text, calls)
    /\ UNCHANGED wireVars

\* A coordinator that appends the output of each tool as soon as it returns.
ToolReturnAppends(c) ==
    /\ pc = "await_tool"
    /\ mode = "batch"
    /\ c \in pending
    /\ LET r == execute(batch[c].tool_name, batch[c].args)
       IN  /\ success_result' = IF r.ok THEN Insert(success_result, c, r.text)
                                ELSE success_result
           /\ failure_result' = IF r.ok THEN failure_result
                                ELSE Insert(failure_result, c, r.text)
           /\ executed' = [executed EXCEPT ![c] = @ + 1]
           /\ pending' = pending \ {c}
           /\ IF pending' = {}
              THEN FinishRound(messages, batch, success_result', failure_result')
              ELSE /\ messages' = add_message(messages, Tool(r.text, c))
                   /\ UNCHANGED <<context, retries, nrounds, pc, attempts, result>>
    /\ UNCHANGED <<state, mode, decision, timeouts, errors, ncalls, batch, exec_tools>>
    /\ UNCHANGED setupVars
    /\ UNCHANGED memVars
    /\ UNCHANGED pairVars
    /\ UNCHANGED wireVars
    /\ UNCHANGED streamVars

ToolReturn(c) ==
    /\ pc = "await_tool"
    /\ mode = "batch"
    /\ c \in pending
    /\ LET r == execute(batch[c].tool_name, batch[c].args)
       IN  /\ success_result' = IF r.ok THEN Insert(success_result, c, r.text)
                                ELSE success_result
           /\ failure_result' = IF r.ok THEN failure_result
                                ELSE Insert(failure_result, c, r.text)
    /\ executed' = [executed EXCEPT ![c] = @ + 1]
    /\ pending' = pending \ {c}
    /\ IF pending' = {}
       THEN FinishRound(messages, batch, success_result', failure_result')
       ELSE UNCHANGED <<messages, context, retries, nrounds, pc, attempts, result>>
    /\ UNCHANGED <<state, mode, decision, timeouts, errors, ncalls, batch, exec_tools>>
    /\ UNCHANGED setupVars
    /\ UNCHANGED memVars
    /\ UNCHANGED pairVars
    /\ UNCHANGED wireVars
    /\ UNCHANGED streamVars

\* A timed-out round that records an empty reply.
TimedOutKeepsPartial(h) == add_message(h, Assistant(<<>>, None))

\* The history a timed-out round leaves behind.
TimedOut(h) == h

LlmTimeout ==
    /\ pc = "await_llm"
    /\ mode = "batch"
    /\ timeouts' = timeouts + 1
    /\ messages' = TimedOut(messages)
    /\ IF retries < config.max_retries
       THEN /\ retries' = retries + 1
            /\ LoopHead(retries', attempts)
       ELSE /\ pc' = "idle"
            /\ result' = Err("Timeout")
            /\ UNCHANGED <<retries, attempts>>
    /\ UNCHANGED <<state, mode, context, decision, errors, ncalls, nrounds>>
    /\ UNCHANGED setupVars
    /\ UNCHANGED memVars
    /\ UNCHANGED pairVars
    /\ UNCHANGED wireVars
    /\ UNCHANGED coordVars
    /\ UNCHANGED streamVars

\* A provider error handled like a timeout: counted and retried.
LlmErrorRetried ==
    /\ pc = "await_llm"
    /\ mode = "batch"
    /\ errors' = errors + 1
    /\ retries' = retries + 1
    /\ LoopHead(retries', attempts)
    /\ UNCHANGED <<state, messages, mode, context, decision, timeouts, ncalls, nrounds>>
    /\ UNCHANGED setupVars
    /\ UNCHANGED memVars
    /\ UNCHANGED pairVars
    /\ UNCHANGED wireVars
    /\ UNCHANGED coordVars
    /\ UNCHANGED streamVars

\* A provider error after which the agent is made Ready again.
LlmErrorResets ==
    /\ pc = "await_llm"
    /\ mode = "batch"
    /\ errors' = errors + 1
    /\ result' = Err("ProviderError")
    /\ pc' = "idle"
    /\ state' = "Ready"
    /\ UNCHANGED <<messages, mode, context, retries, decision, attempts,
                   timeouts, ncalls, nrounds>>
    /\ UNCHANGED setupVars
    /\ UNCHANGED memVars
    /\ UNCHANGED pairVars
    /\ UNCHANGED wireVars
    /\ UNCHANGED coordVars
    /\ UNCHANGED streamVars

LlmError ==
    /\ pc = "await_llm"
    /\ mode = "batch"
    /\ errors' = errors + 1
    /\ result' = Err("ProviderError")
    /\ pc' = "idle"
    /\ UNCHANGED <<state, messages, mode, context, retries, decision, attempts,
                   timeouts, ncalls, nrounds>>
    /\ UNCHANGED setupVars
    /\ UNCHANGED memVars
    /\ UNCHANGED pairVars
    /\ UNCHANGED wireVars
    /\ UNCHANGED coordVars
    /\ UNCHANGED streamVars

\* A panic in the translator unwinds the handle call: it returns nothing
\* and the agent is left as the call had it.
Unwound ==
    /\ pc = "await_llm"
    /\ mode = "batch"
    /\ result' = Err("Panic")
    /\ pc' = "idle"
    /\ UNCHANGED <<state, messages, mode, context, retries, decision, attempts,
                   timeouts, errors, ncalls, nrounds>>
    /\ UNCHANGED setupVars
    /\ UNCHANGED memVars
    /\ UNCHANGED pairVars
    /\ UNCHANGED coordVars
    /\ UNCHANGED streamVars

\* OpenaiLlmClient::complete answered with the response body r: the body is
\* translated and the turn loop takes the arm of the decision.
Complete(r) ==
    /\ pc = "await_llm"
    /\ mode = "batch"
    /\ response' = r
    /\ status' \in HttpStatuses(r)
    /\ UNCHANGED frames
    /\ LET d == parse_openai_response_into_decision(r)
       IN  CASE d.kind = "Respond" -> OnRespond(d.text)
             [] d.kind = "ExecuteTool" -> OnExecuteTool(d.text, d.calls)
             [] d.kind = "Panic" -> Unwound

----------------------------------------------------------------------------
(* handle_message_stream *)

HandleMessageStream(m) ==
    /\ pc = "idle"
    /\ ncalls < MaxCalls
    /\ ncalls' = ncalls + 1
    /\ mode' = "stream"
    /\ timeouts' = 0
    /\ errors' = 0
    /\ attempts' = 0
    /\ decision' = NoDecision
    /\ IF NotReady(state)
       THEN /\ result' = Err("NotReady")
            /\ UNCHANGED <<state, messages, context, pc>>
       ELSE /\ state' = "Processing"
            /\ messages' = add_message(messages, User(m))
            /\ context' = get_context_messages(messages', config.max_tokens)
            /\ result' = StreamReturned
            /\ pc' = "stream_created"
    /\ UNCHANGED <<retries, nrounds>>
    /\ UNCHANGED setupVars
    /\ UNCHANGED memVars
    /\ UNCHANGED pairVars
    /\ UNCHANGED wireVars
    /\ batch' = EmptyMap
    /\ exec_tools' = {}
    /\ pending' = {}
    /\ success_result' = EmptyMap
    /\ failure_result' = EmptyMap
    /\ executed' = ZeroExecuted
    /\ full_response' = <<>>
    /\ tool_calls' = None
    /\ nframes' = 0
    /\ yielded' = <<>>

\* The first poll of the returned stream: the body starts and issues the
\* first stream_complete request.
StreamPoll ==
    /\ pc = "stream_created"
    /\ retries' = 0
    /\ full_response' = <<>>
    /\ pc' = "await_llm"
    /\ attempts' = attempts + 1
    /\ UNCHANGED <<state, messages, mode, context, result, decision, timeouts,
                   errors, ncalls, nrounds, tool_calls, nframes, yielded>>
    /\ UNCHANGED setupVars
    /\ UNCHANGED memVars
    /\ UNCHANGED pairVars
    /\ UNCHANGED wireVars
    /\ UNCHANGED coordVars

StreamOpen ==
    /\ pc = "await_llm"
    /\ mode = "stream"
    /\ tool_calls' = None
    /\ nframes' = 0
    /\ yielded' = <<>>
    /\ pc' = "frames"
    /\ UNCHANGED full_response
    /\ UNCHANGED <<state, messages, mode, context, retries, result, decision,
                   attempts, timeouts, errors, ncalls, nrounds>>
    /\ UNCHANGED setupVars
    /\ UNCHANGED memVars
    /\ UNCHANGED pairVars
    /\ UNCHANGED wireVars
    /\ UNCHANGED coordVars

\* A failed request after which the agent is put in the Error state.
StreamOpenErrorSetsError ==
    /\ pc = "await_llm"
    /\ mode = "stream"
    /\ errors' = errors + 1
    /\ yielded' = Append(yielded, ErrItem("ProviderError"))
    /\ result' = Err("ProviderError")
    /\ pc' = "idle"
    /\ state' = "Error"
    /\ UNCHANGED <<full_response, tool_calls, nframes>>
    /\ UNCHANGED <<messages, mode, context, retries, decision, attempts,
                   timeouts, ncalls, nrounds>>
    /\ UNCHANGED setupVars
    /\ UNCHANGED memVars
    /\ UNCHANGED pairVars
    /\ UNCHANGED wireVars
    /\ UNCHANGED coordVars

StreamOpenError ==
    /\ pc = "await_llm"
    /\ mode = "stream"
    /\ errors' = errors + 1
    /\ yielded' = Append(yielded, ErrItem("ProviderError"))
    /\ result' = Err("ProviderError")
    /\ pc' = "idle"
    /\ UNCHANGED <<full_response, tool_calls, nframes>>
    /\ UNCHANGED <<state, messages, mode, context, retries, decision, attempts,
                   timeouts, ncalls, nrounds>>
    /\ UNCHANGED setupVars
    /\ UNCHANGED memVars
    /\ UNCHANGED pairVars
    /\ UNCHANGED wireVars
    /\ UNCHANGED coordVars

StreamTimeout ==
    /\ pc = "await_llm"
    /\ mode = "stream"
    /\ timeouts' = timeouts + 1
    /\ messages' = TimedOut(messages)
    /\ IF retries < config.max_retries
       THEN /\ retries' = retries + 1
            /\ attempts' = attempts + 1
            /\ UNCHANGED <<pc, result, yielded>>
       ELSE /\ yielded' = Append(yielded, ErrItem("Timeout"))
            /\ result' = Err("Timeout")
            /\ pc' = "idle"
            /\ UNCHANGED <<retries, attempts>>
    /\ UNCHANGED <<full_response, tool_calls, nframes>>
    /\ UNCHANGED <<state, mode, context, decision, errors, ncalls, nrounds>>
    /\ UNCHANGED setupVars
    /\ UNCHANGED memVars
    /\ UNCHANGED pairVars
    /\ UNCHANGED wireVars
    /\ UNCHANGED coordVars

\* A Respond arm that commits each fragment to the history as it arrives.
OnFrameRespondCommits(t) ==
    /\ pc = "frames"
    /\ nframes < MaxFrames
    /\ nframes' = nframes + 1
    /\ full_response' = push_str(full_response, t)
    /\ yielded' = Append(yielded, OkItem(t))
    /\ messages' = add_message(messages, Assistant(t, None))
    /\ UNCHANGED tool_calls
    /\ UNCHANGED <<state, pc, mode, context, retries, result, decision,
                   attempts, timeouts, errors, ncalls, nrounds>>
    /\ UNCHANGED setupVars
    /\ UNCHANGED memVars
    /\ UNCHANGED pairVars
    /\ UNCHANGED coordVars

OnFrameRespond(t) ==
    /\ pc = "frames"
    /\ nframes < MaxFrames
    /\ nframes' = nframes + 1
    /\ full_response' = push_str(full_response, t)
    /\ yielded' = Append(yielded, OkItem(t))
    /\ UNCHANGED tool_calls
    /\ UNCHANGED callVars
    /\ UNCHANGED setupVars
    /\ UNCHANGED memVars
    /\ UNCHANGED pairVars
    /\ UNCHANGED coordVars

FrameRespond(t) ==
    /\ OnFrameRespond(t)
    /\ UNCHANGED wireVars

OnFrameExecuteTool(t, tc_map) ==
    /\ pc = "frames"
    /\ nframes < MaxFrames
    /\ nrounds < MaxToolRounds
    /\ nframes' = nframes + 1
    /\ full_response' = push_str(full_response, t)
    /\ tool_calls' = Some(tc_map)
    /\ yielded' = Append(yielded, OkItem(t))
    /\ UNCHANGED callVars
    /\ UNCHANGED setupVars
    /\ UNCHANGED memVars
    /\ UNCHANGED pairVars
    /\ UNCHANGED coordVars

FrameExecuteTool(t, tc_map) ==
    /\ OnFrameExecuteTool(t, tc_map)
    /\ UNCHANGED wireVars

OnFrameError(e) ==
    /\ pc = "frames"
    /\ nframes < MaxFrames
    /\ nframes' = nframes + 1
    /\ yielded' = Append(yielded, ErrItem(e))
    /\ UNCHANGED <<full_response, tool_calls>>
    /\ UNCHANGED callVars
    /\ UNCHANGED setupVars
    /\ UNCHANGED memVars
    /\ UNCHANGED pairVars
    /\ UNCHANGED coordVars

FrameError ==
    /\ OnFrameError("MalformedFrame")
    /\ UNCHANGED wireVars

\* An end of round that leaves the text of the round in full_response.
FinishRoundStreamKeepsText(h, calls, succ, fail) ==
    \E so \in Perms(DOMAIN succ), fo \in Perms(DOMAIN fail) :
        /\ messages' = h \o SuccessMessages(succ, so) \o FailureMessagesStream(fail, calls, fo)
        /\ context' = get_context_messages(messages', config.max_tokens)
        /\ full_response' = full_response
        /\ tool_calls' = None
        /\ nframes' = 0
        /\ yielded' = <<>>
        /\ nrounds' = nrounds + 1
        /\ pc' = "await_llm"
        /\ attempts' = attempts + 1

\* An end of round that appends the outputs of the successful calls only.
FinishRoundStreamSuccessOnly(h, calls, succ, fail) ==
    \E so \in Perms(DOMAIN succ) :
        /\ messages' = h \o SuccessMessages(succ, so)
        /\ context' = get_context_messages(messages', config.max_tokens)
        /\ full_response' = <<>>
        /\ tool_calls' = None
        /\ nframes' = 0
        /\ yielded' = <<>>
        /\ nrounds' = nrounds + 1
        /\ pc' = "await_llm"
        /\ attempts' = attempts + 1

\* The end of a streamed tool round: the Tool messages, the refreshed
\* context, the cleared text and the next stream_complete request.
FinishRoundStream(h, calls, succ, fail) ==
    \E so \in Perms(DOMAIN succ), fo \in Perms(DOMAIN fail) :
        /\ messages' = h \o SuccessMessages(succ, so) \o FailureMessagesStream(fail, calls, fo)
        /\ context' = get_context_messages(messages', config.max_tokens)
        /\ full_response' = <<>>
        /\ tool_calls' = None
        /\ nframes' = 0
        /\ yielded' = <<>>
        /\ nrounds' = nrounds + 1
        /\ pc' = "await_llm"
        /\ attempts' = attempts + 1

\* The entries naming no registered tool that execute_tool_static may reach
\* before it next awaits a tool: any of those left, and all of them once no
\* registered entry is left.
StaticSkips(left, args, ts) ==
    LET missing == left \ Resolvable(args, ts)
    IN  IF left \cap Resolvable(args, ts) = {} THEN {missing} ELSE SUBSET missing

StreamEnd ==
    /\ pc = "frames"
    /\ IF tool_calls.some
       THEN LET tc == tool_calls.map
                h == add_message(messages, Assistant(full_response, Some(tc)))
            IN  /\ batch' = tc
                /\ exec_tools' = tools
                /\ executed' = ZeroExecuted
                /\ success_result' = EmptyMap
                /\ \E M \in StaticSkips(DOMAIN tc, tc, tools) :
                       /\ failure_result' = StaticFailures(EmptyMap, tc, M)
                       /\ pending' = (DOMAIN tc) \ M
                /\ IF pending' = {}
                   THEN FinishRoundStream(h, tc, success_result', failure_result')
                   ELSE /\ messages' = h
                        /\ pc' = "await_tool"
                        /\ UNCHANGED <<context, nrounds, attempts>>
                        /\ UNCHANGED streamVars
                /\ UNCHANGED <<state, result>>
       ELSE /\ messages' = add_message(messages, Assistant(full_response, None))
            /\ state' = "Ready"
            /\ result' = StreamDone
            /\ pc' = "idle"
            /\ UNCHANGED <<context, nrounds, attempts>>
            /\ UNCHANGED coordVars
            /\ UNCHANGED streamVars
    /\ UNCHANGED <<mode, retries, decision, timeouts, errors, ncalls>>
    /\ UNCHANGED setupVars
    /\ UNCHANGED memVars
    /\ UNCHANGED pairVars
    /\ UNCHANGED wireVars

ToolReturnStatic(c) ==
    /\ pc = "await_tool"
    /\ mode = "stream"
    /\ c \in pending \cap Resolvable(batch, exec_tools)
    /\ LET r == execute(batch[c].tool_name, batch[c].args)
           fail == IF r.ok THEN failure_result ELSE Insert(failure_result, c, r.text)
       IN  /\ success_result' = IF r.ok THEN Insert(success_result, c, r.text)
                                ELSE success_result
           /\ \E M \in StaticSkips(pending \ {c}, batch, exec_tools) :
                  /\ failure_result' = StaticFailures(fail, batch, M)
                  /\ pending' = pending \ ({c} \cup M)
    /\ executed' = [executed EXCEPT ![c] = @ + 1]
    /\ IF pending' = {}
       THEN FinishRoundStream(messages, batch, success_result', failure_result')
       ELSE /\ UNCHANGED <<messages, context, nrounds, pc, attempts>>
            /\ UNCHANGED streamVars
    /\ UNCHANGED <<state, mode, retries, result, decision, timeouts, errors, ncalls,
                   batch, exec_tools>>
    /\ UNCHANGED setupVars
    /\ UNCHANGED memVars
    /\ UNCHANGED pairVars
    /\ UNCHANGED wireVars

----------------------------------------------------------------------------
(* stream_complete of OpenaiLlmClient: the frames and their translation *)

\* The loop over the tool-call entries of a chunk: entries are read with
\* get, so an entry that lacks a key is skipped.
RECURSIVE InsertCallsGet(_, _, _)
InsertCallsGet(tcs, i, map) ==
    IF i > Len(tcs) THEN map
    ELSE IF HasIdAndFunction(tcs[i]) /\ HasNameAndArguments(tcs[i])
         THEN LET f == Index(tcs[i], "function")
              IN  InsertCallsGet(tcs, i + 1,
                      Insert(map, Index(tcs[i], "id").str,
                             ToolCallArgs(Index(f, "name").str,
                                          parsed_args(Index(f, "arguments").str))))
         ELSE InsertCallsGet(tcs, i + 1, map)

\* A chunk without a choices array is an empty text; choices[0] of an empty
\* array panics.
parse_openai_stream_chunk_into_decision(chunk) ==
    LET choices == Index(chunk, "choices")
        delta == Index(choices.arr[1], "delta")
        content == as_str_or_empty(Index(delta, "content"))
        calls == Index(delta, "tool_calls")
        tool_calls_map == InsertCallsGet(calls.arr, 1, EmptyMap)
    IN  IF ~is_array(choices) THEN Respond(<<>>)
        ELSE IF Len(choices.arr) = 0 THEN Panicked
        ELSE IF is_array(calls) /\ DOMAIN tool_calls_map # {}
             THEN ExecuteTool(content, tool_calls_map)
             ELSE Respond(content)

\* What the byte stream of the response delivers: a read that timed out,
\* bytes that are not UTF-8, a data line that is not JSON, a data line
\* holding a JSON value.
ReadTimedOut == [kind |-> "ReadTimedOut", value |-> JNull]
NotUtf8 == [kind |-> "NotUtf8", value |-> JNull]
NotJson == [kind |-> "NotJson", value |-> JNull]
Json(v) == [kind |-> "Json", value |-> v]

FrameErr(e) == [kind |-> "Err", error |-> e]

\* The item of the decision stream for one frame.
decision_stream(f) ==
    CASE f.kind = "ReadTimedOut" -> FrameErr("ReadTimeout")
      [] f.kind = "NotUtf8" -> FrameErr("MalformedFrame")
      [] f.kind = "NotJson" -> FrameErr("MalformedFrame")
      [] f.kind = "Json" -> parse_openai_stream_chunk_into_decision(f.value)

Delta(d) == Body(JArr(<<JObj([delta |-> d])>>))
Calls(l) == JObj([tool_calls |-> JArr(l)])

\* The second half of the argument string of which ArgsCut is the first.
ArgsRest == <<"x", "}">>

\* Two text fragments, a call whole in one chunk, a call whose argument string
\* comes in two chunks, a second call, a chunk that has no choices key and a
\* chunk whose choices array is empty.
Chunks ==
    {Delta(JObj([content |-> JStr(<<"Hi">>)])),
     Delta(JObj([content |-> JStr(<<"there">>)])),
     Delta(Calls(<<Entry(JStr("c1"), Function(JStr("echo"), JStr(ArgsText)))>>)),
     Delta(Calls(<<Entry(JStr("c1"), Function(JStr("echo"), JStr(ArgsCut)))>>)),
     Delta(Calls(<<Entry(JStr("c1"), Function(JStr("echo"), JStr(ArgsRest)))>>)),
     Delta(Calls(<<Entry(JStr("c2"), Function(JStr("echo"), JStr(ArgsText)))>>)),
     JObj([usage |-> JNull]),
     Body(JArr(<<>>))}

Frames == {ReadTimedOut, NotUtf8, NotJson} \cup {Json(v) : v \in Chunks}

\* A panic in the chunk translator unwinds the poll of the stream: no item
\* is yielded and the agent is left as the round had it.
UnwoundStream ==
    /\ pc = "frames"
    /\ nframes < MaxFrames
    /\ nframes' = nframes + 1
    /\ result' = Err("Panic")
    /\ pc' = "idle"
    /\ UNCHANGED <<full_response, tool_calls, yielded>>
    /\ UNCHANGED <<state, messages, mode, context, retries, decision, attempts,
                   timeouts, errors, ncalls, nrounds>>
    /\ UNCHANGED setupVars
    /\ UNCHANGED memVars
    /\ UNCHANGED pairVars
    /\ UNCHANGED coordVars

\* The stream of stream_complete delivers the frame f: handle_message_stream
\* takes the arm of its item.
StreamFrame(f) ==
    /\ pc = "frames"
    /\ nframes < MaxFrames
    /\ frames' = IF nframes = 0 THEN <<f>> ELSE Append(frames, f)
    /\ UNCHANGED <<response, status>>
    /\ LET d == decision_stream(f)
       IN  CASE d.kind = "Err" -> OnFrameError(d.error)
             [] d.kind = "Respond" -> OnFrameRespond(d.text)
             [] d.kind = "ExecuteTool" -> OnFrameExecuteTool(d.text, d.calls)
             [] d.kind = "Panic" -> UnwoundStream

----------------------------------------------------------------------------
(* The tool coordinators called on their own *)

\* The entries of args whose tool is registered and succeeds.
Succeeding(args, ts) ==
    {c \in Resolvable(args, ts) : execute(args[c].tool_name, args[c].args).ok}

Output(args, c) == execute(args[c].tool_name, args[c].args).text

\* What execute_tool returns: the failures of the first pass under the tool
\* names, then the outcome of each registered tool under its call-id.
execute_tool(args, ts) ==
    LET failing == Resolvable(args, ts) \ Succeeding(args, ts)
        missing == MissingFailures(args, ts)
    IN  [success_result |-> [c \in Succeeding(args, ts) |-> Output(args, c)],
         failure_result |-> [k \in failing \cup DOMAIN missing |->
                                IF k \in failing THEN Output(args, k) ELSE missing[k]]]

\* What execute_tool_static returns: every outcome under its call-id.
execute_tool_static(args, ts) ==
    LET failing == Resolvable(args, ts) \ Succeeding(args, ts)
    IN  [success_result |-> [c \in Succeeding(args, ts) |-> Output(args, c)],
         failure_result |-> StaticFailures([c \in failing |-> Output(args, c)], args,
                                           (DOMAIN args) \ Resolvable(args, ts))]

\* A coordinator that appends the outputs it collects to the history.
ExecuteToolDirectAppends(calls) ==
    /\ pc = "idle"
    /\ mode' = "direct"
    /\ batch' = calls
    /\ exec_tools' = tools
    /\ pending' = {}
    /\ executed' = [c \in CallIds |-> IF c \in Resolvable(calls, tools) THEN 1 ELSE 0]
    /\ success_result' = execute_tool(calls, tools).success_result
    /\ failure_result' = execute_tool(calls, tools).failure_result
    /\ \E so \in Perms(DOMAIN success_result') :
           messages' = messages \o SuccessMessages(success_result', so)
    /\ UNCHANGED <<state, pc, context, retries, result, decision, attempts,
                   timeouts, errors, ncalls, nrounds>>
    /\ UNCHANGED setupVars
    /\ UNCHANGED memVars
    /\ UNCHANGED pairVars
    /\ UNCHANGED wireVars
    /\ UNCHANGED streamVars

\* A call of execute_tool from outside the turn loop, as the tests make it.
ExecuteToolDirect(calls) ==
    /\ pc = "idle"
    /\ mode' = "direct"
    /\ batch' = calls
    /\ exec_tools' = tools
    /\ pending' = {}
    /\ executed' = [c \in CallIds |-> IF c \in Resolvable(calls, tools) THEN 1 ELSE 0]
    /\ success_result' = execute_tool(calls, tools).success_result
    /\ failure_result' = execute_tool(calls, tools).failure_result
    /\ UNCHANGED <<state, messages, pc, context, retries, result, decision, attempts,
                   timeouts, errors, ncalls, nrounds>>
    /\ UNCHANGED setupVars
    /\ UNCHANGED memVars
    /\ UNCHANGED pairVars
    /\ UNCHANGED wireVars
    /\ UNCHANGED streamVars

\* A call of execute_tool_static from outside the stream.
ExecuteToolStaticDirect(calls) ==
    /\ pc = "idle"
    /\ mode' = "direct_static"
    /\ batch' = calls
    /\ exec_tools' = tools
    /\ pending' = {}
    /\ executed' = [c \in CallIds |-> IF c \in Resolvable(calls, tools) THEN 1 ELSE 0]
    /\ success_result' = execute_tool_static(calls, tools).success_result
    /\ failure_result' = execute_tool_static(calls, tools).failure_result
    /\ UNCHANGED <<state, messages, pc, context, retries, result, decision, attempts,
                   timeouts, errors, ncalls, nrounds>>
    /\ UNCHANGED setupVars
    /\ UNCHANGED memVars
    /\ UNCHANGED pairVars
    /\ UNCHANGED wireVars
    /\ UNCHANGED streamVars

----------------------------------------------------------------------------
(* A handle call that its caller gives up *)

\* A caller that restores Ready when it gives a call up.
AbandonResets ==
    /\ pc \in {"await_llm", "await_tool", "stream_created", "frames"}
    /\ pc' = "idle"
    /\ result' = Err("Abandoned")
    /\ state' = "Ready"
    /\ UNCHANGED <<messages, mode, context, retries, decision, attempts,
                   timeouts, errors, ncalls, nrounds>>
    /\ UNCHANGED setupVars
    /\ UNCHANGED memVars
    /\ UNCHANGED pairVars
    /\ UNCHANGED wireVars
    /\ UNCHANGED coordVars
    /\ UNCHANGED streamVars

\* The caller drops the future of handle_message at one of its awaits, or
\* the stream of handle_message_stream before its end: the call runs no
\* further and the agent is left as the call had it.
Abandon ==
    /\ pc \in {"await_llm", "await_tool", "stream_created", "frames"}
    /\ pc' = "idle"
    /\ result' = Err("Abandoned")
    /\ UNCHANGED <<state, messages, mode, context, retries, decision, attempts,
                   timeouts, errors, ncalls, nrounds>>
    /\ UNCHANGED setupVars
    /\ UNCHANGED memVars
    /\ UNCHANGED pairVars
    /\ UNCHANGED wireVars
    /\ UNCHANGED coordVars
    /\ UNCHANGED streamVars

----------------------------------------------------------------------------
(* Two agents built alike, one for each variant *)

\* The handle_message call of the first agent is kept, and a second agent is
\* built as the first was: Agent::new, then with_config and register_tool
\* with what the first was given.
Rebuild ==
    /\ pc = "idle"
    /\ mode = "batch"
    /\ ncalls = 1
    /\ ~first.taken
    /\ first' = Call(result, attempts, timeouts, state, messages)
    /\ state' = "Ready"
    /\ messages' = IF configured THEN <<System(config.system_prompt)>> ELSE <<>>
    /\ context' = <<>>
    /\ retries' = 0
    /\ result' = NoResult
    /\ decision' = NoDecision
    /\ attempts' = 0
    /\ timeouts' = 0
    /\ errors' = 0
    /\ ncalls' = 0
    /\ nrounds' = 0
    /\ UNCHANGED <<pc, mode>>
    /\ UNCHANGED setupVars
    /\ UNCHANGED memVars
    /\ UNCHANGED wireVars
    /\ UNCHANGED coordVars
    /\ UNCHANGED streamVars

----------------------------------------------------------------------------
(* A short-term memory used on its own *)

MemMessages ==
    {System(<<>>), User(<<"Hello">>), Assistant(<<"Hi", "there">>, None),
     Tool(<<"a", "b", "c", "d">>, "c1")}

MemBudgets == {NoTokens} \cup {SomeTokens(n) : n \in 0..MaxBudget}

MemAdd(m) ==
    /\ Len(messages) < MaxMessages
    /\ messages' = add_message(messages, m)
    /\ added' = Append(added, m)
    /\ view' = NoView
    /\ UNCHANGED <<state, pc, mode, context, retries, result, decision, attempts,
                   timeouts, errors, ncalls, nrounds>>
    /\ UNCHANGED setupVars
    /\ UNCHANGED pairVars
    /\ UNCHANGED wireVars
    /\ UNCHANGED coordVars
    /\ UNCHANGED streamVars

MemView(b) ==
    /\ view' = View(b, get_context_messages(messages, b))
    /\ view' # view
    /\ UNCHANGED added
    /\ UNCHANGED callVars
    /\ UNCHANGED setupVars
    /\ UNCHANGED pairVars
    /\ UNCHANGED wireVars
    /\ UNCHANGED coordVars
    /\ UNCHANGED streamVars

----------------------------------------------------------------------------

Next ==
    \/ \E cfg \in Configs : WithConfig(cfg)
    \/ \E t \in ToolKinds : RegisterTool(t)
    \/ \E m \in UserTexts : HandleMessage(m)
    \/ \E t \in ReplyTexts : LlmRespond(t)
    \/ \E t \in ToolTexts, calls \in Batches : LlmExecuteTool(t, calls)
    \/ \E c \in CallIds : ToolReturn(c)
    \/ LlmTimeout
    \/ LlmError
    \/ \E m \in UserTexts : HandleMessageStream(m)
    \/ StreamPoll
    \/ StreamOpen
    \/ StreamOpenError
    \/ StreamTimeout
    \/ \E t \in ReplyTexts : FrameRespond(t)
    \/ \E t \in ToolTexts, calls \in Batches : FrameExecuteTool(t, calls)
    \/ FrameError
    \/ StreamEnd
    \/ \E c \in CallIds : ToolReturnStatic(c)

Spec == Init /\ [][Next]_vars

\* The runs of the tests: the provider never asks for a tool (the
\* MockLLMClient answers every request directly), and the test assigns a
\* state other than Ready to the state field.
NextT ==
    \/ \E cfg \in Configs : WithConfig(cfg)
    \/ \E t \in ToolKinds : RegisterTool(t)
    \/ \E s \in AgentStates \ {"Ready"} : SetState(s)
    \/ \E m \in UserTexts : HandleMessage(m)
    \/ \E t \in ReplyTexts : LlmRespond(t)
    \/ LlmTimeout
    \/ LlmError
    \/ \E m \in UserTexts : HandleMessageStream(m)
    \/ StreamPoll
    \/ StreamOpen
    \/ StreamOpenError
    \/ StreamTimeout
    \/ \E t \in ReplyTexts : FrameRespond(t)
    \/ FrameError
    \/ StreamEnd

SpecT == Init /\ [][NextT]_vars

\* The runs of a short-term memory on its own: messages are added to an empty
\* memory and context views are taken of it.
NextM ==
    \/ \E m \in MemMessages : MemAdd(m)
    \/ \E b \in MemBudgets : MemView(b)

SpecM == Init /\ [][NextM]_vars

\* The runs of handle_message with the OpenAI client: every provider answer
\* is a response body that complete translates.
NextX ==
    \/ \E t \in ToolKinds : RegisterTool(t)
    \/ \E m \in UserTexts : HandleMessage(m)
    \/ \E r \in Responses : Complete(r)
    \/ \E c \in CallIds : ToolReturn(c)
    \/ LlmError

SpecX == Init /\ [][NextX]_vars

\* One handle_message call of an agent, then one handle_message_stream call
\* of an agent built alike.
NextE ==
    \/ \E cfg \in Configs : (~first.taken /\ WithConfig(cfg))
    \/ \E m \in UserTexts : (~first.taken /\ ncalls = 0 /\ HandleMessage(m))
    \/ \E t \in ReplyTexts : LlmRespond(t)
    \/ LlmTimeout
    \/ LlmError
    \/ Rebuild
    \/ \E m \in UserTexts : (first.taken /\ ncalls = 0 /\ HandleMessageStream(m))
    \/ StreamPoll
    \/ StreamOpen
    \/ StreamOpenError
    \/ StreamTimeout
    \/ \E t \in ReplyTexts : FrameRespond(t)
    \/ StreamEnd

SpecE == Init /\ [][NextE]_vars

\* Calls of the coordinators from outside, between handle_message calls.
NextC ==
    \/ \E t \in ToolKinds : RegisterTool(t)
    \/ \E m \in UserTexts : HandleMessage(m)
    \/ \E t \in ReplyTexts : LlmRespond(t)
    \/ \E t \in ToolTexts, calls \in Batches : LlmExecuteTool(t, calls)
    \/ \E c \in CallIds : ToolReturn(c)
    \/ \E calls \in Batches : ExecuteToolDirect(calls)
    \/ \E calls \in Batches : ExecuteToolStaticDirect(calls)

SpecC == Init /\ [][NextC]_vars

\* Handle calls that the caller may give up before they complete.
NextA ==
    \/ \E t \in ToolKinds : RegisterTool(t)
    \/ \E m \in UserTexts : HandleMessage(m)
    \/ \E t \in ReplyTexts : LlmRespond(t)
    \/ \E t \in ToolTexts, calls \in Batches : LlmExecuteTool(t, calls)
    \/ \E c \in CallIds : ToolReturn(c)
    \/ \E m \in UserTexts : HandleMessageStream(m)
    \/ StreamPoll
    \/ StreamOpen
    \/ \E t \in ReplyTexts : FrameRespond(t)
    \/ \E t \in ToolTexts, calls \in Batches : FrameExecuteTool(t, calls)
    \/ StreamEnd
    \/ \E c \in CallIds : ToolReturnStatic(c)
    \/ Abandon

SpecA == Init /\ [][NextA]_vars

\* Streamed calls of an agent whose client is OpenaiLlmClient.
NextS ==
    \/ \E t \in ToolKinds : RegisterTool(t)
    \/ \E m \in UserTexts : HandleMessageStream(m)
    \/ StreamPoll
    \/ StreamOpen
    \/ \E f \in Frames : StreamFrame(f)
    \/ StreamEnd
    \/ \E c \in CallIds : ToolReturnStatic(c)

SpecS == Init /\ [][NextS]_vars

----------------------------------------------------------------------------
(* Claims *)

CoordinatorReturned == pc # "await_tool"

NoCallReplies(h) ==
    {i \in DOMAIN h : h[i].role = "Assistant" /\ ~h[i].tool_calls.some}

\* C1: in every state other than Ready, a handle_message or
\* handle_message_stream call fails with NotReady, issues no provider request
\* and leaves the history and the state as they were.
C1_NotReadyRejected ==
    [][(ncalls' = ncalls + 1 /\ state # "Ready")
          => /\ result'.kind = "NotReady"
             /\ attempts' = 0
             /\ pc' = "idle"
             /\ messages' = messages
             /\ state' = state]_vars

C1_Witness ==
    /\ result.kind = "NotReady"
    /\ mode = "stream"
    /\ state = "Terminated"
    /\ Len(messages) > 0

\* C2: when the coordinator has returned, the keys of success_result and of
\* failure_result together are exactly the call-ids of the batch, and no key
\* is in both.
C2_Partition ==
    CoordinatorReturned =>
        /\ (DOMAIN success_result) \cup (DOMAIN failure_result) = DOMAIN batch
        /\ (DOMAIN success_result) \cap (DOMAIN failure_result) = {}

\* C3: handle_message returns Ok(text) only on a Respond(text) decision, with
\* Assistant(text, no calls) the last message and the state Ready; the next
\* handle call after it is accepted.
C3_OkOnlyOnRespond ==
    [][/\ (mode' = "batch" /\ result'.kind = "Ok" /\ result.kind # "Ok")
            => /\ decision' = Respond(result'.text)
               /\ Len(messages') > 0
               /\ Last(messages') = Assistant(result'.text, None)
               /\ state' = "Ready"
               /\ pc' = "idle"
       /\ (mode = "batch" /\ result.kind = "Ok" /\ ncalls' = ncalls + 1)
            => /\ result'.kind # "NotReady"
               /\ state' = "Processing"]_vars

C3_Witness ==
    /\ pc = "idle"
    /\ mode = "batch"
    /\ result.kind = "Ok"
    /\ ncalls = 2
    /\ nrounds = 0
    /\ Cardinality(NoCallReplies(messages)) = 2
    /\ Last(messages) = Assistant(result.text, None)

\* C4: a handle_message call whose provider requests all time out fails after
\* exactly max_retries + 1 provider attempts.
C4_AttemptsWhenAllTimeOut ==
    (/\ pc = "idle"
     /\ mode = "batch"
     /\ result.kind \in {"RetryExhausted", "Timeout"}
     /\ attempts >= 1
     /\ timeouts = attempts)
        => attempts = config.max_retries + 1

\* C5: a round that times out appends nothing to the history, and leaves the
\* context view the retried request is issued with unchanged.
C5_TimeoutKeepsHistory ==
    [][timeouts' = timeouts + 1 => (messages' = messages /\ context' = context)]_vars

C5_Witness ==
    /\ pc = "await_llm"
    /\ timeouts = 2
    /\ retries = 2
    /\ attempts = 4
    /\ nrounds = 1

\* C6: a tool round leaves the retry counter unchanged, so that the budget
\* left is max_retries minus the timed-out rounds, and it is followed by a
\* further provider request with a refreshed context view.
C6_ToolRoundKeepsRetries ==
    [][nrounds' = nrounds + 1
          => /\ retries' = retries
             /\ config.max_retries - retries' = config.max_retries - timeouts'
             /\ pc' = "await_llm"
             /\ attempts' = attempts + 1
             /\ context' = get_context_messages(messages', config.max_tokens)]_vars

C6_Witness ==
    /\ pc = "await_llm"
    /\ mode = "batch"
    /\ ncalls = 1
    /\ nrounds = 2
    /\ timeouts = 1
    /\ retries = 1
    /\ DOMAIN failure_result # {}
    /\ DOMAIN success_result # {}

\* C7: a provider request that returns an error ends the handle call with
\* that error: the retry counter and the history stay as they were, and the
\* call issues no further provider request.
C7_ProviderErrorFailsCall ==
    [][/\ errors' = errors + 1
            => /\ pc' = "idle"
               /\ result'.kind = "ProviderError"
               /\ attempts' = attempts
               /\ retries' = retries
               /\ messages' = messages
       /\ (errors > 0 /\ ncalls' = ncalls) => attempts' = attempts]_vars

C7_Witness ==
    /\ pc = "idle"
    /\ result.kind = "ProviderError"
    /\ errors = 1
    /\ attempts = 2
    /\ nrounds = 1
    /\ state = "Processing"

\* C8: when the coordinator has returned, every entry of the batch whose tool
\* is not registered has its call-id in failure_result, with the "does not
\* exist" message, and not in success_result.
C8_MissingToolRecorded ==
    CoordinatorReturned =>
        \A c \in DOMAIN batch :
            batch[c].tool_name \notin exec_tools
                => /\ c \in DOMAIN failure_result
                   /\ failure_result[c] = DoesNotExist(batch[c].tool_name)
                   /\ c \notin DOMAIN success_result

\* C9: in one round no entry is executed more than once, and when the
\* coordinator has returned every entry whose tool is registered has been
\* executed exactly once, the other entries never.
C9_ExecutedOnce ==
    \A c \in CallIds :
        /\ executed[c] <= 1
        /\ (c \in DOMAIN batch /\ batch[c].tool_name \in exec_tools /\ CoordinatorReturned)
              => executed[c] = 1
        /\ ~(c \in DOMAIN batch /\ batch[c].tool_name \in exec_tools)
              => executed[c] = 0

C9_Witness ==
    /\ CoordinatorReturned
    /\ DOMAIN batch = CallIds
    /\ batch["c1"].tool_name \in exec_tools
    /\ batch["c2"].tool_name \notin exec_tools
    /\ executed["c1"] = 1
    /\ executed["c2"] = 0

\* C10: every Tool message of the history answers a call-id of the call map
\* of the Assistant message of its round, the last Assistant message before it.
C10_ToolAnswersCall ==
    \A i \in DOMAIN messages :
        messages[i].role = "Tool"
            => \E j \in 1..(i - 1) :
                  /\ messages[j].role = "Assistant"
                  /\ messages[j].tool_calls.some
                  /\ \A k \in (j + 1)..(i - 1) : messages[k].role = "Tool"
                  /\ messages[i].tool_call_id \in DOMAIN messages[j].tool_calls.map

\* C11: whenever no handle call is in flight the agent is not in Processing,
\* the state in which every later handle call is rejected.
C11_NeverStuck == pc = "idle" => state # "Processing"

\* C12: the provider requests of one handle call are bounded by max_retries:
\* a call issues at most max_retries + 1 of them, tool rounds included.
C12_RoundsBounded == attempts <= config.max_retries + 1

\* The estimated token cost of a sequence of messages.
RECURSIVE ViewCost(_)
ViewCost(h) ==
    IF Len(h) = 0 THEN 0 ELSE estimate_tokens(h[1].content) + ViewCost(Tail(h))

Suffix(h, k) == SubSeq(h, Len(h) - k + 1, Len(h))

\* C13: a view taken with no budget of a memory that started empty is the
\* sequence of the messages added, in the order they were added.
C13_ViewNoneReturnsAll ==
    (view.taken /\ ~view.max_tokens.some) => view.result = added

C13_Witness ==
    /\ view.taken
    /\ ~view.max_tokens.some
    /\ Len(added) = 3
    /\ added[1] # added[2]
    /\ added[2] # added[3]
    /\ view.result = added

\* C14: a view taken with the budget B costs at most B, unless it is the
\* newest message alone, and the history is still exactly what was added.
C14_ViewWithinBudget ==
    (view.taken /\ view.max_tokens.some)
        => /\ \/ ViewCost(view.result) <= view.max_tokens.v
              \/ (Len(messages) > 0 /\ view.result = <<Last(messages)>>)
           /\ messages = added

C14_Witness ==
    /\ view.taken
    /\ view.max_tokens = SomeTokens(2)
    /\ Len(messages) = 3
    /\ Len(view.result) = 2
    /\ ViewCost(view.result) = 2
    /\ ViewCost(messages) > 2

\* C15: a view taken with the budget B is the longest suffix of the history
\* that costs at most B, in the order of the history: the message in front
\* of it would exceed B, and no older message is taken in its place.
C15_ViewLongestSuffix ==
    (view.taken /\ view.max_tokens.some)
        => \E k \in 0..Len(messages) :
              /\ view.result = Suffix(messages, k)
              /\ ViewCost(Suffix(messages, k)) <= view.max_tokens.v
              /\ k < Len(messages)
                    => ViewCost(Suffix(messages, k + 1)) > view.max_tokens.v

C15_Witness ==
    /\ view.taken
    /\ view.max_tokens = SomeTokens(3)
    /\ Len(messages) = 3
    /\ view.result = <<messages[3]>>
    /\ ViewCost(<<messages[1], messages[3]>>) <= 3
    /\ ViewCost(<<messages[2]>>) > 3

IsPrefix(a, b) == Len(a) <= Len(b) /\ SubSeq(b, 1, Len(a)) = a

\* C16: the history is append-only: in every step of the agent the history
\* before the step is a prefix of the history after it.
C16_AppendOnly == [][IsPrefix(messages, messages')]_vars

C16_Witness ==
    /\ configured
    /\ mode = "stream"
    /\ ncalls = 2
    /\ nrounds = 2
    /\ timeouts = 1
    /\ Len(messages) >= 8
    /\ Len(context) < Len(messages)

\* C17: after with_config and k handle calls that were all answered directly,
\* the history is System(prompt) followed by k pairs User(m), Assistant(reply,
\* no calls), 1 + 2k messages, and handle_message returned the reply it stored.
C17_DirectReplyHistory ==
    (configured /\ pc = "idle" /\ state = "Ready" /\ nrounds = 0)
        => /\ Len(messages) = 1 + 2 * ncalls
           /\ messages[1] = System(config.system_prompt)
           /\ \A k \in 1..ncalls :
                  /\ messages[2 * k] \in {User(m) : m \in UserTexts}
                  /\ messages[2 * k + 1].role = "Assistant"
                  /\ ~messages[2 * k + 1].tool_calls.some
           /\ (ncalls > 0 /\ mode = "batch")
                  => /\ result.kind = "Ok"
                     /\ Last(messages) = Assistant(result.text, None)

C17_Witness ==
    /\ configured
    /\ pc = "idle"
    /\ state = "Ready"
    /\ mode = "batch"
    /\ ncalls = 2
    /\ timeouts = 0
    /\ messages = <<System(Prompt), User(<<"Hello">>), Assistant(<<"Hi">>, None),
                    User(<<"Hello">>), Assistant(result.text, None)>>

\* What a response body holds, read off the body itself.
ChoicesOf(r) ==
    IF is_object(r) /\ "choices" \in DOMAIN r.obj /\ is_array(r.obj.choices)
    THEN r.obj.choices.arr ELSE <<>>

NoChoices(r) == Len(ChoicesOf(r)) = 0

MessageOf(r) == ChoicesOf(r)[1].obj.message

ContentOf(r) ==
    IF "content" \in DOMAIN MessageOf(r).obj /\ is_string(MessageOf(r).obj.content)
    THEN MessageOf(r).obj.content.str ELSE <<>>

ToolCallsOf(r) ==
    IF "tool_calls" \in DOMAIN MessageOf(r).obj THEN MessageOf(r).obj.tool_calls.arr
    ELSE <<>>

HasString(o, key) == is_object(o) /\ key \in DOMAIN o.obj /\ is_string(o.obj[key])

\* An entry with an id, a name and an arguments string.
CompleteEntry(e) ==
    /\ HasString(e, "id")
    /\ is_object(e.obj.function)
    /\ HasString(e.obj.function, "name")
    /\ HasString(e.obj.function, "arguments")

CompleteEntries(r) == {i \in DOMAIN ToolCallsOf(r) : CompleteEntry(ToolCallsOf(r)[i])}

IdOf(e) == e.obj.id.str
NameOf(e) == e.obj.function.obj.name.str
ArgumentsOf(e) == e.obj.function.obj.arguments.str

\* The entry i of r is the last complete entry of r with its id.
LastWithId(r, i) ==
    \A j \in CompleteEntries(r) :
        IdOf(ToolCallsOf(r)[j]) = IdOf(ToolCallsOf(r)[i]) => j <= i

\* C18: a response whose first message has complete tool-call entries is
\* translated to ExecuteTool(text, map), the map having the ids of those
\* entries as its keys and their names as its tools; a response with a first
\* message and no complete entry is translated to Respond(text).
C18_Translation ==
    [][\A r \in Responses :
          (Complete(r) /\ ~NoChoices(r))
              => IF CompleteEntries(r) # {}
                 THEN /\ decision'.kind = "ExecuteTool"
                      /\ decision'.text = ContentOf(r)
                      /\ DOMAIN decision'.calls
                            = {IdOf(ToolCallsOf(r)[i]) : i \in CompleteEntries(r)}
                      /\ \A i \in CompleteEntries(r) :
                            LastWithId(r, i)
                                => decision'.calls[IdOf(ToolCallsOf(r)[i])].tool_name
                                      = NameOf(ToolCallsOf(r)[i])
                 ELSE decision' = Respond(ContentOf(r))]_vars

\* C19: a response with no choices is translated to Respond(""), and the
\* turn loop takes it as a direct reply: the call returns the empty text,
\* stores it as the Assistant message and the agent is Ready.
C19_NoChoicesIsEmptyReply ==
    [][\A r \in Responses :
          (Complete(r) /\ NoChoices(r))
              => /\ decision' = Respond(<<>>)
                 /\ result' = Ok(<<>>)
                 /\ Last(messages') = Assistant(<<>>, None)
                 /\ state' = "Ready"
                 /\ pc' = "idle"]_vars

C19_Witness ==
    /\ response = Body(JArr(<<>>))
    /\ decision = Respond(<<>>)
    /\ result = Ok(<<>>)
    /\ pc = "idle"
    /\ state = "Ready"
    /\ nrounds = 1
    /\ Last(messages) = Assistant(<<>>, None)

\* C20: when a complete entry of a response has arguments that do not parse,
\* the response is still translated to an ExecuteTool decision whose map has
\* that entry with an empty object, and every other complete entry with the
\* arguments its string parses to.
C20_UnparseableArgumentsKept ==
    [][\A r \in Responses :
          (/\ Complete(r)
           /\ ~NoChoices(r)
           /\ \E i \in CompleteEntries(r) : ~from_str(ArgumentsOf(ToolCallsOf(r)[i])).ok)
              => /\ decision'.kind = "ExecuteTool"
                 /\ \A i \in CompleteEntries(r) :
                        LET e == ToolCallsOf(r)[i]
                        IN  LastWithId(r, i)
                               => /\ IdOf(e) \in DOMAIN decision'.calls
                                  /\ decision'.calls[IdOf(e)].args
                                        = IF from_str(ArgumentsOf(e)).ok
                                          THEN from_str(ArgumentsOf(e)).v
                                          ELSE EmptyObject]_vars

\* C21: when the provider answers a complete request with a non-success HTTP
\* status, the call ends in a provider failure: no decision is returned for
\* that response, and nothing is appended to the history.
C21_HttpFailureIsTerminal ==
    [][\A r \in Responses :
          (Complete(r) /\ ~is_success(status'))
              => /\ result'.kind = "ProviderError"
                 /\ decision' = decision
                 /\ messages' = messages
                 /\ pc' = "idle"]_vars

\* The frames of the round so far.
RoundFrames == IF nframes = 0 THEN <<>> ELSE frames

Malformed(f) == f.kind \in {"NotUtf8", "NotJson"}

\* C22: a frame that is not UTF-8 or not JSON yields one MalformedFrame error
\* and changes nothing else, and every frame that follows a malformed frame
\* in the round is delivered as one more item while the stream goes on being
\* consumed.
C22_MalformedFrameIsolated ==
    [][\A f \in Frames :
          (/\ StreamFrame(f)
           /\ \/ Malformed(f)
              \/ \E i \in DOMAIN RoundFrames : Malformed(RoundFrames[i]))
              => /\ pc' = "frames"
                 /\ messages' = messages
                 /\ state' = state
                 /\ Len(yielded') = Len(yielded) + 1
                 /\ Malformed(f)
                       => /\ yielded' = Append(yielded, ErrItem("MalformedFrame"))
                          /\ UNCHANGED <<full_response, tool_calls>>]_vars

\* The tool-call entries of a frame, and the argument fragments that the
\* frames fs carry for the call id, joined in the order of arrival.
EntriesOf(f) ==
    LET choices == as_array_or_empty(Index(f.value, "choices"))
    IN  IF f.kind = "Json" /\ Len(choices) > 0
        THEN as_array_or_empty(Index(Index(choices[1], "delta"), "tool_calls"))
        ELSE <<>>

RECURSIVE JoinArguments(_, _, _)
JoinArguments(es, i, id) ==
    IF i > Len(es) THEN <<>>
    ELSE (IF IdOf(es[i]) = id THEN ArgumentsOf(es[i]) ELSE <<>>)
             \o JoinArguments(es, i + 1, id)

RECURSIVE Fragments(_, _)
Fragments(fs, id) ==
    IF fs = <<>> THEN <<>>
    ELSE JoinArguments(EntriesOf(Head(fs)), 1, id) \o Fragments(Tail(fs), id)

\* C23: when the frames of a streamed round end, every call whose argument
\* fragments, joined per call-id, form a complete argument string is in the
\* batch that is executed, with the arguments that string parses to.
C23_FragmentsAccumulated ==
    [][(StreamEnd /\ mode = "stream")
          => \A id \in CallIds :
                 from_str(Fragments(RoundFrames, id)).ok
                    => /\ id \in DOMAIN batch'
                       /\ batch'[id].args = from_str(Fragments(RoundFrames, id)).v]_vars

\* C27: when a read of the response times out after the frames of a round
\* have started and retries remain, the round is issued again: one more
\* request, one retry spent, the text of the abandoned round dropped and the
\* history as it was.
C27_MidStreamTimeoutRetried ==
    [][(/\ StreamFrame(ReadTimedOut)
        /\ retries < config.max_retries)
          => /\ pc' = "await_llm"
             /\ attempts' = attempts + 1
             /\ retries' = retries + 1
             /\ full_response' = <<>>
             /\ messages' = messages]_vars

\* The index of the last Assistant message of h that carries calls, and the
\* ids of the Tool messages that follow it.
LastCalls(h) ==
    CHOOSE i \in DOMAIN h :
        /\ h[i].role = "Assistant" /\ h[i].tool_calls.some
        /\ \A j \in DOMAIN h : (j > i) => ~(h[j].role = "Assistant" /\ h[j].tool_calls.some)

ToolsAfter(h, i, id) == {j \in DOMAIN h : j > i /\ h[j].role = "Tool" /\ h[j].tool_call_id = id}

\* C25: when the frames of a streamed round end with a call map seen, the
\* Assistant message with the text and that map is appended, the state stays
\* Processing and the map is executed; when the next round starts, one Tool
\* message per call follows that Assistant message and a new request is
\* issued. With no call map seen, the Assistant message with the text and no
\* calls is appended, the state is Ready and the stream is done. The state
\* becomes Ready in that case only.
C25_EndOfRound ==
    [][/\ (StreamEnd /\ tool_calls.some)
           => /\ Len(messages') > Len(messages)
              /\ messages'[Len(messages) + 1] = Assistant(full_response, tool_calls)
              /\ batch' = tool_calls.map
              /\ state' = "Processing"
              /\ pc' \in {"await_tool", "await_llm"}
       /\ (StreamEnd /\ ~tool_calls.some)
           => /\ messages' = Append(messages, Assistant(full_response, None))
              /\ state' = "Ready"
              /\ result' = StreamDone
              /\ pc' = "idle"
       /\ (mode = "stream" /\ pc \in {"frames", "await_tool"} /\ pc' = "await_llm")
           => LET i == LastCalls(messages')
              IN  /\ messages'[i].tool_calls.map = batch'
                  /\ Len(messages') = i + Cardinality(DOMAIN batch')
                  /\ \A id \in DOMAIN batch' : Cardinality(ToolsAfter(messages', i, id)) = 1
                  /\ attempts' = attempts + 1
                  /\ state' = "Processing"
       /\ (mode = "stream" /\ state # "Ready" /\ state' = "Ready")
           => (pc = "frames" /\ ~tool_calls.some)]_vars

\* A second round is being asked for after a round of two calls, one of
\* which failed, and a stream has ended in Ready after a tool round.
C25_Witness ==
    /\ mode = "stream"
    /\ pc = "idle"
    /\ state = "Ready"
    /\ result = StreamDone
    /\ nrounds = 1
    /\ Cardinality(DOMAIN batch) = 2
    /\ DOMAIN failure_result # {}
    /\ Last(messages) = Assistant(<<"Hi">>, None)

\* What the caller is to receive for a frame, the text that the frames fs
\* carry, joined in the order of arrival, and the last call map among them.
ItemOf(f) ==
    LET d == decision_stream(f)
    IN  IF d.kind = "Err" THEN ErrItem(d.error) ELSE OkItem(d.text)

RECURSIVE TextOf(_)
TextOf(fs) ==
    IF fs = <<>> THEN <<>>
    ELSE LET d == decision_stream(Head(fs))
         IN  (IF d.kind \in {"Respond", "ExecuteTool"} THEN d.text ELSE <<>>)
                 \o TextOf(Tail(fs))

RECURSIVE LastMapOf(_)
LastMapOf(fs) ==
    IF fs = <<>> THEN None
    ELSE LET d == decision_stream(Last(fs))
         IN  IF d.kind = "ExecuteTool" THEN Some(d.calls)
             ELSE LastMapOf(SubSeq(fs, 1, Len(fs) - 1))

\* C26: every fragment read from the stream of a round is yielded to the
\* caller next, in the order of arrival, and the Assistant message appended
\* when the frames of the round end has the texts of that round's fragments,
\* joined in order, and the last call map seen in the round.
C26_RoundTextAndCalls ==
    [][/\ \A f \in Frames :
             (StreamFrame(f) /\ pc' = "frames") => yielded' = Append(yielded, ItemOf(f))
       /\ StreamEnd
             => /\ Len(messages') > Len(messages)
                /\ messages'[Len(messages) + 1]
                      = Assistant(TextOf(RoundFrames), LastMapOf(RoundFrames))]_vars

\* The second round of a stream ends with its own two fragments as the
\* reply, after a first round that had a text and a call.
C26_Witness ==
    /\ mode = "stream"
    /\ pc = "idle"
    /\ result = StreamDone
    /\ nrounds = 1
    /\ \E i \in DOMAIN messages :
           /\ messages[i].role = "Assistant"
           /\ messages[i].tool_calls.some
           /\ messages[i].content = <<"Hi">>
    /\ yielded = <<OkItem(<<"Hi">>), OkItem(<<"there">>)>>
    /\ Last(messages) = Assistant(<<"Hi", "there">>, None)

\* C28: from the start of the frames of a streamed round to their end no
\* message is appended: opening the stream and reading a frame, whatever the
\* frame, leave the history as it was.
C28_HistoryAtBoundariesOnly ==
    [][(\/ (StreamOpen /\ mode = "stream")
        \/ \E f \in Frames : StreamFrame(f)
        \/ (pc = "frames" /\ pc' = "frames"))
          => messages' = messages]_vars

\* A malformed frame and a text fragment have been read and the history
\* still ends with the user's message.
C28_Witness ==
    /\ mode = "stream"
    /\ pc = "frames"
    /\ yielded = <<ErrItem("MalformedFrame"), OkItem(<<"Hi">>)>>
    /\ full_response = <<"Hi">>
    /\ Last(messages) = User(<<"Hello">>)

\* C29: while a call of the batch of a round is still to complete, the
\* history ends with the Assistant message of that round; and a step that
\* appends a Tool message is one that ends the batch and leaves Tool messages
\* only from the round's Assistant message to that Tool message.
C29_ToolOutputsAfterBatch ==
    [][/\ (pc' = "await_tool")
           => /\ pending' # {}
              /\ Last(messages') = Assistant(decision'.text, Some(batch'))
                   \/ Last(messages') = Assistant(full_response', Some(batch'))
       /\ \A k \in DOMAIN messages' :
              (k > Len(messages) /\ messages'[k].role = "Tool")
                 => /\ pending' = {}
                    /\ pc' # "await_tool"
                    /\ LastCalls(messages') \in {Len(messages), Len(messages) + 1}
                    /\ messages'[LastCalls(messages')].tool_calls = Some(batch')
                    /\ \A j \in (LastCalls(messages') + 1)..k :
                           messages'[j].role = "Tool"]_vars

\* One call of a batch of two has completed, the other has not, and the
\* history ends with the Assistant message of the round.
C29_Witness ==
    /\ pc = "await_tool"
    /\ Cardinality(DOMAIN batch) = 2
    /\ Cardinality(pending) = 1
    /\ DOMAIN success_result # {}
    /\ Last(messages).role = "Assistant"
    /\ Last(messages).tool_calls = Some(batch)

\* C30: when the view that handle_message computes for a request is empty,
\* the request is issued all the same if the retry test lets any request be
\* issued, and a direct reply to it ends the call as a reply to any other
\* request does.
C30_EmptyViewTolerated ==
    [][/\ (/\ mode' = "batch"
           /\ context' = <<>>
           /\ \/ (ncalls' = ncalls + 1 /\ state = "Ready")
              \/ nrounds' = nrounds + 1)
           => IF LoopCond(retries', config)
              THEN /\ pc' = "await_llm"
                   /\ attempts' = (IF ncalls' = ncalls THEN attempts ELSE 0) + 1
                   /\ state' = "Processing"
              ELSE result' = Err("RetryExhausted")
       /\ (/\ mode = "batch"
           /\ pc = "await_llm"
           /\ context = <<>>
           /\ decision' # decision
           /\ decision'.kind = "Respond")
           => /\ result' = Ok(decision'.text)
              /\ state' = "Ready"
              /\ messages' = Append(messages, Assistant(decision'.text, None))]_vars

\* A call has returned the reply to a request whose view was empty, the
\* newest message then being a failure notice larger than the budget.
C30_Witness ==
    /\ mode = "batch"
    /\ pc = "idle"
    /\ result = Ok(<<"Hi">>)
    /\ context = <<>>
    /\ config.max_tokens = SomeTokens(2)
    /\ Len(messages) >= 2
    /\ messages[Len(messages) - 1].role = "Tool"
    /\ estimate_tokens(messages[Len(messages) - 1].content) > 2

\* What a finished call has consumed of the provider's outcomes: so many
\* timeouts and then a reply, a provider error, or nothing more.
NoMore == <<"none">>

LastOutcome(r, h) ==
    CASE r.kind = "Ok" -> <<"reply", r.text>>
      [] r.kind = "StreamDone" -> <<"reply", Last(h).content>>
      [] r.kind = "ProviderError" -> <<"error">>
      [] OTHER -> NoMore

\* Two calls were served from the same sequence of outcomes: what one of
\* them consumed begins what the other consumed.
SameOutcomes(t1, o1, t2, o2) ==
    \/ t1 = t2 /\ (o1 = o2 \/ o1 = NoMore \/ o2 = NoMore)
    \/ t1 < t2 /\ o1 = NoMore
    \/ t2 < t1 /\ o2 = NoMore

StreamFinished ==
    /\ first.taken
    /\ mode = "stream"
    /\ pc = "idle"
    /\ ncalls = 1
    /\ result.kind \in {"StreamDone", "ProviderError", "Timeout"}

\* C24: a handle_message call and a handle_message_stream call of agents
\* built alike, served from the same sequence of provider outcomes, make the
\* same number of requests and leave the same state and the same history.
C24_SameStateSemantics ==
    (/\ StreamFinished
     /\ SameOutcomes(first.timeouts, LastOutcome(first.result, first.messages),
                     timeouts, LastOutcome(result, messages)))
        => /\ attempts = first.attempts
           /\ state = first.state
           /\ messages = first.messages

\* C31: a call of execute_tool from outside the turn loop leaves the
\* history and the state as they were, and a Tool message is appended only
\* by a step of the turn loop of a handle call.
C31_CoordinatorKeepsHistory ==
    [][/\ \A calls \in Batches :
             ExecuteToolDirect(calls) => (messages' = messages /\ state' = state)
       /\ \A k \in DOMAIN messages' :
             (k > Len(messages) /\ messages'[k].role = "Tool")
                => (mode \in {"batch", "stream"} /\ pc \in {"await_llm", "await_tool", "frames"})]_vars

\* execute_tool has been called from outside and has returned an output and
\* a failure; the history holds no Tool message.
C31_Witness ==
    /\ mode = "direct"
    /\ pc = "idle"
    /\ DOMAIN success_result # {}
    /\ DOMAIN failure_result # {}
    /\ state = "Ready"
    /\ \A i \in DOMAIN messages : messages[i].role # "Tool"

\* C33: called with the batch and the tool set that execute_tool has just
\* been called with, execute_tool_static returns the same success_result and
\* the same failure_result.
C33_CoordinatorsAgree ==
    [][\A calls \in Batches :
          (/\ ExecuteToolStaticDirect(calls)
           /\ mode = "direct"
           /\ batch = calls
           /\ exec_tools = tools)
              => /\ success_result' = success_result
                 /\ failure_result' = failure_result]_vars

HardFailures == {"RetryExhausted", "Timeout", "ProviderError"}

\* C32: a step that ends a handle call in a hard failure leaves the state
\* Processing and the history with the user's message and nothing removed;
\* once the agent is idle in Processing it stays so, and every handle call
\* made then fails with NotReady.
C32_HardFailureLeavesProcessing ==
    [][/\ (/\ result'.kind \in HardFailures
           /\ pc' = "idle"
           /\ (pc # "idle" \/ ncalls' = ncalls + 1))
           => /\ state' = "Processing"
              /\ IF pc = "idle"
                 THEN messages' = Append(messages, Last(messages')) /\ Last(messages').role = "User"
                 ELSE messages' = messages /\ \E i \in DOMAIN messages : messages[i].role = "User"
       /\ (pc = "idle" /\ state = "Processing")
           => /\ state' = "Processing"
              /\ pc' = "idle"
              /\ (ncalls' = ncalls + 1) => (result'.kind = "NotReady" /\ messages' = messages)]_vars

\* A second handle call has been rejected after a first one that failed
\* with a provider error or a timeout and left the agent in Processing.
C32_Witness ==
    /\ pc = "idle"
    /\ ncalls = 2
    /\ state = "Processing"
    /\ result.kind = "NotReady"
    /\ Last(messages) = User(<<"Hello">>)
    /\ Cardinality({i \in DOMAIN messages : messages[i].role = "User"}) = 1

\* C34: the state of an agent that with_config, register_tool,
\* handle_message and handle_message_stream have acted on is Ready or
\* Processing.
C34_ReadyOrProcessing == state \in {"Ready", "Processing"}

\* A configured agent with a tool has served a call with a tool round and
\* then a streamed call that failed.
C34_Witness ==
    /\ configured
    /\ tools = {"echo"}
    /\ ncalls = 2
    /\ nrounds >= 1
    /\ mode = "stream"
    /\ pc = "idle"
    /\ result.kind \in HardFailures
    /\ state = "Processing"

\* C35: every JSON frame is translated to a decision, which is yielded to
\* the caller while the stream goes on being consumed.
C35_ChunkParserTotal ==
    [][\A f \in Frames :
          (StreamFrame(f) /\ f.kind = "Json")
              => /\ parse_openai_stream_chunk_into_decision(f.value).kind
                       \in {"Respond", "ExecuteTool"}
                 /\ Len(yielded') = Len(yielded) + 1
                 /\ pc' = "frames"]_vars

\* C36: a handle_message call that has failed for want of retries has
\* issued at least one provider request.
C36_AskedAtLeastOnce ==
    (/\ mode = "batch"
     /\ pc = "idle"
     /\ result.kind \in {"RetryExhausted", "Timeout"})
        => attempts >= 1

\* The Tool messages of h that answer the Assistant message at i: those
\* after i and before the next Assistant message.
RepliesTo(h, i) ==
    {j \in DOMAIN h :
        /\ j > i
        /\ h[j].role = "Tool"
        /\ \A k \in (i + 1)..(j - 1) : h[k].role # "Assistant"}

\* C37: when a handle call has returned, every Assistant message with a call
\* map is answered by as many Tool messages as the map has entries, one for
\* each call-id of the map.
C37_EveryCallAnswered ==
    (pc = "idle")
        => \A i \in DOMAIN messages :
               (messages[i].role = "Assistant" /\ messages[i].tool_calls.some)
                  => /\ Cardinality(RepliesTo(messages, i))
                          = Cardinality(DOMAIN messages[i].tool_calls.map)
                     /\ \A id \in DOMAIN messages[i].tool_calls.map :
                            Cardinality({j \in RepliesTo(messages, i) :
                                            messages[j].tool_call_id = id}) = 1

\* C38: giving a handle call up leaves the agent in Processing with the
\* history the call had reached; the agent then stays idle in Processing and
\* every handle call made on it fails with NotReady.
C38_AbandonedCallLeavesProcessing ==
    [][/\ Abandon
           => /\ state' = "Processing"
              /\ messages' = messages
       /\ (pc = "idle" /\ state = "Processing")
           => /\ state' = "Processing"
              /\ pc' = "idle"
              /\ messages' = messages
              /\ (ncalls' = ncalls + 1) => result'.kind = "NotReady"]_vars

\* A call was given up while a tool was pending: the history ends with an
\* Assistant message whose calls have no reply, and the next handle call
\* has been rejected.
C38_Witness ==
    /\ pc = "idle"
    /\ ncalls = 2
    /\ state = "Processing"
    /\ result.kind = "NotReady"
    /\ Last(messages).role = "Assistant"
    /\ Last(messages).tool_calls.some

InCall == pc \in {"await_llm", "await_tool", "frames"}

\* C39: the retry counter is 0 when a handle call issues its first request;
\* during the call it never decreases, it grows by one exactly with a round
\* that timed out and is retried, and it never exceeds max_retries, so the
\* timed-out rounds that a call in flight has behind it number at most
\* max_retries.
C39_RetriesPerCall ==
    [][/\ (~InCall /\ InCall') => retries' = 0
       /\ (InCall /\ InCall')
           => /\ retries' \in {retries, retries + 1}
              /\ (retries' = retries + 1) <=> (timeouts' = timeouts + 1)
       /\ InCall'
           => /\ retries' <= config.max_retries
              /\ timeouts' = retries']_vars

\* A streamed call is in a round after a tool round with both of its
\* retries spent on timed-out rounds.
C39_Witness ==
    /\ pc = "await_llm"
    /\ nrounds >= 1
    /\ config.max_retries = 2
    /\ retries = 2
    /\ timeouts = 2


(***************************************************************************)
(* Entries that share a call id                                            *)
(***************************************************************************)

\* Two entries of the first message of r carry the same id.
SharedId(r) ==
    \E i, j \in DOMAIN ToolCallsOf(r) :
        /\ i < j
        /\ HasString(ToolCallsOf(r)[i], "id")
        /\ HasString(ToolCallsOf(r)[j], "id")
        /\ IdOf(ToolCallsOf(r)[i]) = IdOf(ToolCallsOf(r)[j])

\* C40: a response whose first message has entries sharing a call id is
\* translated to a decision, never refused; the map of the decision has one
\* entry for each id of a complete entry, and the entry holds the name and
\* the arguments of the last complete entry with that id.
C40_LastDuplicateKept ==
    [][\A r \in Responses :
          (Complete(r) /\ ~NoChoices(r) /\ SharedId(r))
              => /\ result' # Err("Panic")
                 /\ DOMAIN decision'.calls
                       = {IdOf(ToolCallsOf(r)[i]) : i \in CompleteEntries(r)}
                 /\ \A i \in CompleteEntries(r) :
                       LastWithId(r, i)
                           => /\ decision'.calls[IdOf(ToolCallsOf(r)[i])].tool_name
                                    = NameOf(ToolCallsOf(r)[i])
                              /\ decision'.calls[IdOf(ToolCallsOf(r)[i])].args
                                    = parsed_args(ArgumentsOf(ToolCallsOf(r)[i]))]_vars

====
